---- MODULE Spec2Model ----
(***************************************************************************)
(* Protocol names and peer-set configuration of the parachain networking   *)
(* protocol (node/network/protocol/src/peer_set.rs).                       *)
(*                                                                         *)
(* Strings are TLA+ strings.  Option<T> is a sequence of length 0 (None)   *)
(* or 1 (Some).  A HashMap is a function whose DOMAIN is the key set.      *)
(***************************************************************************)
EXTENDS Integers, Sequences, FiniteSets, TLC

VARIABLES
    pc,            \* position of the constructing thread
    genesis_hash,  \* argument of new
    fork_id,       \* argument of new: Option<&str>
    protocols,     \* local `protocols` of new, the map being built
    idx,           \* position of `for protocol in PeerSet::iter()`
    registry,      \* Option<PeerSetProtocolNames>: the value new returned
    ret,           \* per reader: the last read operation and what it returned
    call           \* the last application of a function under test

vars == <<pc, genesis_hash, fork_id, protocols, idx, registry, ret, call>>

-----------------------------------------------------------------------------
(* Bounds of the model *)

\* generate_name is applied to versions 0..MaxVersion
MaxVersion == 12
\* readers call get_name with versions 0..MaxReadVersion
MaxReadVersion == 2

-----------------------------------------------------------------------------
(* Constants and types *)

LEGACY_VALIDATION_PROTOCOL_V1 == "/polkadot/validation/1"
LEGACY_COLLATION_PROTOCOL_V1 == "/polkadot/collation/1"
MAIN_PROTOCOL_VERSION == 1
LEGACY_PROTOCOL_VERSION == 1
MAX_NOTIFICATION_SIZE == 100 * 1024

\* super::MIN_GOSSIP_PEERS, defined in the crate root (lib.rs)
MIN_GOSSIP_PEERS == 25

PeerSet == {"Validation", "Collation"}
\* the order of PeerSet::iter() (strum::EnumIter): declaration order
PeerSetIter == <<"Validation", "Collation">>
IsAuthority == {"Yes", "No"}

None == <<>>
Some(x) == <<x>>

\* The genesis hash of the unit tests
TestGenesis ==
    <<122, 200, 116, 29, 232, 183, 20, 109, 138, 86, 23, 253, 70, 41, 20, 85,
      127, 230, 60, 38, 90, 127, 28, 16, 231, 218, 227, 40, 88, 238, 187, 128>>

\* Inputs of the model: 32-byte hashes, among them two that differ in one
\* byte only, and one whose hex digits are all letters
GenesisHashes ==
    { TestGenesis,
      [TestGenesis EXCEPT ![32] = 129],
      [i \in 1..32 |-> 171] }

\* Inputs of the model: fork ids, among them the empty string and strings
\* that look like segments of a name
ForkIds == { None, Some("test-fork"), Some(""), Some("validation"),
             Some("f/collation/1") }

Versions == 0..MaxVersion

-----------------------------------------------------------------------------
(* Integer arithmetic *)

\* u32 subtraction of operands below 2^31 (`MIN_GOSSIP_PEERS as u32 / 2` is
\* one).  The model's integers are 32 bits wide and signed: a result that
\* wrapped around is the negative number with the same 32 bits.
U32Sub(a, b) == a - b

-----------------------------------------------------------------------------
(* Formatting *)

HexChars == "0123456789abcdef"

\* hex::encode of one byte: two lowercase digits, high nibble first
HexByte(b) ==
    SubSeq(HexChars, (b \div 16) + 1, (b \div 16) + 1)
        \o SubSeq(HexChars, (b % 16) + 1, (b % 16) + 1)

RECURSIVE HexEncode(_)
HexEncode(bytes) ==
    IF bytes = <<>> THEN "" ELSE HexByte(Head(bytes)) \o HexEncode(Tail(bytes))

\* Display of an unsigned integer (format!("{}", version))
RECURSIVE ToDecimal(_)
ToDecimal(n) ==
    IF n < 10 THEN SubSeq(HexChars, n + 1, n + 1)
    ELSE ToDecimal(n \div 10) \o SubSeq(HexChars, (n % 10) + 1, (n % 10) + 1)

-----------------------------------------------------------------------------
(* PeerSetProtocolNames: names *)

generate_name_shared_label(genesis, fork, protocol, version) ==
    LET prefix == IF fork # None
                  THEN "/" \o HexEncode(genesis) \o "/" \o fork[1]
                  ELSE "/" \o HexEncode(genesis)
    IN prefix \o "/" \o "validation" \o "/" \o ToDecimal(version)

generate_name_fork_last(genesis, fork, protocol, version) ==
    LET short_name == IF protocol = "Validation" THEN "validation" ELSE "collation"
        base == "/" \o HexEncode(genesis) \o "/" \o short_name
    IN (IF fork # None THEN base \o "/" \o fork[1] ELSE base)
           \o "/" \o ToDecimal(version)

generate_name_no_fork(genesis, fork, protocol, version) ==
    LET short_name == IF protocol = "Validation" THEN "validation" ELSE "collation"
    IN "/" \o HexEncode(genesis) \o "/" \o short_name \o "/" \o ToDecimal(version)

generate_name(genesis, fork, protocol, version) ==
    LET prefix == IF fork # None
                  THEN "/" \o HexEncode(genesis) \o "/" \o fork[1]
                  ELSE "/" \o HexEncode(genesis)
        short_name == IF protocol = "Validation" THEN "validation" ELSE "collation"
    IN prefix \o "/" \o short_name \o "/" \o ToDecimal(version)

\* The match arms name VALIDATION_PROTOCOL_V1 and COLLATION_PROTOCOL_V1; the
\* file declares the two constants as LEGACY_VALIDATION_PROTOCOL_V1 and
\* LEGACY_COLLATION_PROTOCOL_V1, the strings the unit test looks up.
get_legacy_name(protocol) ==
    IF protocol = "Validation" THEN LEGACY_VALIDATION_PROTOCOL_V1
    ELSE LEGACY_COLLATION_PROTOCOL_V1

get_fallback_names(protocol) == <<get_legacy_name(protocol)>>

get_main_version(self) == MAIN_PROTOCOL_VERSION

-----------------------------------------------------------------------------
(* PeerSetProtocolNames: construction *)

EmptyMap == [n \in {} |-> <<>>]

\* The result of insert_protocol_or_panic: the map after the call, or a panic
insert_overwrites(map, name, protocol, version) ==
    [panicked |-> FALSE,
     map |-> [n \in DOMAIN map \cup {name} |->
                 IF n = name THEN <<protocol, version>> ELSE map[n]]]

insert_protocol_or_panic(map, name, protocol, version) ==
    IF name \notin DOMAIN map
    THEN [panicked |-> FALSE,
          map |-> [n \in DOMAIN map \cup {name} |->
                      IF n = name THEN <<protocol, version>> ELSE map[n]]]
    ELSE [panicked |-> TRUE, map |-> map]

-----------------------------------------------------------------------------
(* PeerSetProtocolNames: read operations (all take &self) *)

try_get_protocol(self, name) ==
    IF name \in DOMAIN self.protocols THEN Some(self.protocols[name]) ELSE None

get_name_main_version_only(self, protocol, version) ==
    generate_name(self.genesis_hash, self.fork_id, protocol, MAIN_PROTOCOL_VERSION)

get_name(self, protocol, version) ==
    generate_name(self.genesis_hash, self.fork_id, protocol, version)

get_main_name(self, protocol) == get_name(self, protocol, MAIN_PROTOCOL_VERSION)

-----------------------------------------------------------------------------
(* PeerSet: configuration *)

get_max_notification_size(self, is_authority) == MAX_NOTIFICATION_SIZE

get_info_collation_open(self, is_authority, names) ==
    LET protocol == get_main_name(names, self)
        fallback_names == get_fallback_names(self)
        max_notification_size == get_max_notification_size(self, is_authority)
    IN IF self = "Validation"
       THEN [notifications_protocol |-> protocol,
             fallback_names |-> fallback_names,
             max_notification_size |-> max_notification_size,
             set_config |->
                 [in_peers |-> U32Sub(MIN_GOSSIP_PEERS \div 2, 1),
                  out_peers |-> U32Sub(MIN_GOSSIP_PEERS \div 2, 1),
                  reserved_nodes |-> <<>>,
                  non_reserved_mode |-> "Accept"]]
       ELSE [notifications_protocol |-> protocol,
             fallback_names |-> fallback_names,
             max_notification_size |-> max_notification_size,
             set_config |->
                 [in_peers |-> 100,
                  out_peers |-> 0,
                  reserved_nodes |-> <<>>,
                  non_reserved_mode |-> "Accept"]]

get_info_half_each(self, is_authority, names) ==
    LET protocol == get_main_name(names, self)
        fallback_names == get_fallback_names(self)
        max_notification_size == get_max_notification_size(self, is_authority)
    IN IF self = "Validation"
       THEN [notifications_protocol |-> protocol,
             fallback_names |-> fallback_names,
             max_notification_size |-> max_notification_size,
             set_config |->
                 [in_peers |-> (MIN_GOSSIP_PEERS + 1) \div 2,
                  out_peers |-> (MIN_GOSSIP_PEERS + 1) \div 2,
                  reserved_nodes |-> <<>>,
                  non_reserved_mode |-> "Accept"]]
       ELSE [notifications_protocol |-> protocol,
             fallback_names |-> fallback_names,
             max_notification_size |-> max_notification_size,
             set_config |->
                 [in_peers |-> IF is_authority = "Yes" THEN 100 ELSE 0,
                  out_peers |-> 0,
                  reserved_nodes |-> <<>>,
                  non_reserved_mode |->
                      IF is_authority = "Yes" THEN "Accept" ELSE "Deny"]]

get_info_legacy_protocol(self, is_authority, names) ==
    LET protocol == get_legacy_name(self)
        fallback_names == <<get_main_name(names, self)>>
        max_notification_size == get_max_notification_size(self, is_authority)
    IN IF self = "Validation"
       THEN [notifications_protocol |-> protocol,
             fallback_names |-> fallback_names,
             max_notification_size |-> max_notification_size,
             set_config |->
                 [in_peers |-> U32Sub(MIN_GOSSIP_PEERS \div 2, 1),
                  out_peers |-> U32Sub(MIN_GOSSIP_PEERS \div 2, 1),
                  reserved_nodes |-> <<>>,
                  non_reserved_mode |-> "Accept"]]
       ELSE [notifications_protocol |-> protocol,
             fallback_names |-> fallback_names,
             max_notification_size |-> max_notification_size,
             set_config |->
                 [in_peers |-> IF is_authority = "Yes" THEN 100 ELSE 0,
                  out_peers |-> 0,
                  reserved_nodes |-> <<>>,
                  non_reserved_mode |->
                      IF is_authority = "Yes" THEN "Accept" ELSE "Deny"]]

get_info(self, is_authority, names) ==
    LET protocol == get_main_name(names, self)
        fallback_names == get_fallback_names(self)
        max_notification_size == get_max_notification_size(self, is_authority)
    IN IF self = "Validation"
       THEN [notifications_protocol |-> protocol,
             fallback_names |-> fallback_names,
             max_notification_size |-> max_notification_size,
             set_config |->
                 [in_peers |-> U32Sub(MIN_GOSSIP_PEERS \div 2, 1),
                  out_peers |-> U32Sub(MIN_GOSSIP_PEERS \div 2, 1),
                  reserved_nodes |-> <<>>,
                  non_reserved_mode |-> "Accept"]]
       ELSE [notifications_protocol |-> protocol,
             fallback_names |-> fallback_names,
             max_notification_size |-> max_notification_size,
             set_config |->
                 [in_peers |-> IF is_authority = "Yes" THEN 100 ELSE 0,
                  out_peers |-> 0,
                  reserved_nodes |-> <<>>,
                  non_reserved_mode |->
                      IF is_authority = "Yes" THEN "Accept" ELSE "Deny"]]

get_label(self) == IF self = "Validation" THEN "validation" ELSE "collation"

get_protocol_label_any_version(self, version) ==
    IF self = "Validation" THEN Some("validation/1") ELSE Some("collation/1")

get_protocol_label(self, version) ==
    IF self = "Validation" /\ version = 1 THEN Some("validation/1")
    ELSE IF self = "Collation" /\ version = 1 THEN Some("collation/1")
    ELSE None

peer_sets_info(is_authority, names) ==
    [i \in 1..Len(PeerSetIter) |-> get_info(PeerSetIter[i], is_authority, names)]

-----------------------------------------------------------------------------
(* State machine *)

IdleRet == [op |-> "idle", args |-> <<>>, result |-> <<>>]
NoCall == [fn |-> "none"]

Init ==
    /\ pc = "new"
    /\ genesis_hash = <<>>
    /\ fork_id = None
    /\ protocols = EmptyMap
    /\ idx = 1
    /\ registry = None
    /\ ret = [r \in {"r1"} |-> IdleRet]
    /\ call = NoCall

\* new is called: let mut protocols = HashMap::new(), the loop starts
New ==
    /\ pc = "new"
    /\ \E g \in GenesisHashes, f \in ForkIds :
          /\ genesis_hash' = g
          /\ fork_id' = f
    /\ protocols' = EmptyMap
    /\ idx' = 1
    /\ pc' = "main"
    /\ UNCHANGED <<registry, ret, call>>

\* the first insertion of the loop body: the main name
InsertMain ==
    /\ pc = "main"
    /\ LET protocol == PeerSetIter[idx]
           r == insert_protocol_or_panic(
                    protocols,
                    generate_name(genesis_hash, fork_id, protocol, MAIN_PROTOCOL_VERSION),
                    protocol,
                    MAIN_PROTOCOL_VERSION)
       IN /\ protocols' = r.map
          /\ pc' = IF r.panicked THEN "panicked" ELSE "legacy"
    /\ UNCHANGED <<genesis_hash, fork_id, idx, registry, ret, call>>

\* the second insertion of the loop body: the legacy name; then the next
\* peer set, or the end of the loop
InsertLegacy ==
    /\ pc = "legacy"
    /\ LET protocol == PeerSetIter[idx]
           r == insert_protocol_or_panic(
                    protocols,
                    get_legacy_name(protocol),
                    protocol,
                    LEGACY_PROTOCOL_VERSION)
       IN /\ protocols' = r.map
          /\ pc' = IF r.panicked THEN "panicked"
                   ELSE IF idx = Len(PeerSetIter) THEN "return" ELSE "main"
          /\ idx' = IF r.panicked THEN idx ELSE idx + 1
    /\ UNCHANGED <<genesis_hash, fork_id, registry, ret, call>>

ReturnDropsForkId ==
    /\ pc = "return"
    /\ registry' = Some([genesis_hash |-> genesis_hash,
                         fork_id |-> None,
                         protocols |-> protocols])
    /\ pc' = "ready"
    /\ UNCHANGED <<genesis_hash, fork_id, protocols, idx, ret, call>>

\* Self { genesis_hash, fork_id: fork_id.map(ToOwned::to_owned), protocols }
Return ==
    /\ pc = "return"
    /\ registry' = Some([genesis_hash |-> genesis_hash,
                         fork_id |-> fork_id,
                         protocols |-> protocols])
    /\ pc' = "ready"
    /\ UNCHANGED <<genesis_hash, fork_id, protocols, idx, ret, call>>


-----------------------------------------------------------------------------
(* Readers: any thread holding a &PeerSetProtocolNames, which exists only   *)
(* once new has returned                                                    *)

ReadVersions == 0..MaxReadVersion

\* The names a reader looks up: the names of its registry, at the main and
\* at other versions; the legacy names; the main names of every other
\* genesis hash and fork id; strings that are no protocol name
ForeignNames ==
    { generate_name(g, f, c, MAIN_PROTOCOL_VERSION) :
          g \in GenesisHashes, f \in ForkIds, c \in PeerSet }
        \cup { get_legacy_name(c) : c \in PeerSet }
        \cup { "", "/polkadot/validation/2", "/polkadot/validation" }

LookupNames(self) ==
    { get_name(self, c, v) : c \in PeerSet, v \in ReadVersions } \cup ForeignNames

TryGetProtocolCaches(r) ==
    /\ pc = "ready"
    /\ registry # None
    /\ \E name \in LookupNames(registry[1]) :
          LET got == try_get_protocol(registry[1], name)
          IN /\ ret' = [ret EXCEPT ![r] =
                    [op |-> "try_get_protocol", args |-> <<name>>, result |-> got]]
             /\ registry' =
                    IF got = None
                    THEN Some([registry[1] EXCEPT !.protocols =
                             [n \in DOMAIN registry[1].protocols \cup {name} |->
                                 IF n = name THEN <<"Validation", MAIN_PROTOCOL_VERSION>>
                                 ELSE registry[1].protocols[n]]])
                    ELSE registry
    /\ UNCHANGED <<pc, genesis_hash, fork_id, protocols, idx, call>>

TryGetProtocol(r) ==
    /\ pc = "ready"
    /\ registry # None
    /\ \E name \in LookupNames(registry[1]) :
          ret' = [ret EXCEPT ![r] =
                    [op |-> "try_get_protocol",
                     args |-> <<name>>,
                     result |-> try_get_protocol(registry[1], name)]]
    /\ UNCHANGED <<pc, genesis_hash, fork_id, protocols, idx, registry, call>>

GetMainName(r) ==
    /\ pc = "ready"
    /\ registry # None
    /\ \E c \in PeerSet :
          ret' = [ret EXCEPT ![r] =
                    [op |-> "get_main_name",
                     args |-> <<c>>,
                     result |-> get_main_name(registry[1], c)]]
    /\ UNCHANGED <<pc, genesis_hash, fork_id, protocols, idx, registry, call>>

GetName(r) ==
    /\ pc = "ready"
    /\ registry # None
    /\ \E c \in PeerSet, v \in ReadVersions :
          ret' = [ret EXCEPT ![r] =
                    [op |-> "get_name",
                     args |-> <<c, v>>,
                     result |-> get_name(registry[1], c, v)]]
    /\ UNCHANGED <<pc, genesis_hash, fork_id, protocols, idx, registry, call>>

GetInfo(r) ==
    /\ pc = "ready"
    /\ registry # None
    /\ \E c \in PeerSet, a \in IsAuthority :
          ret' = [ret EXCEPT ![r] =
                    [op |-> "get_info",
                     args |-> <<c, a>>,
                     result |-> get_info(c, a, registry[1])]]
    /\ UNCHANGED <<pc, genesis_hash, fork_id, protocols, idx, registry, call>>

PeerSetsInfo(r) ==
    /\ pc = "ready"
    /\ registry # None
    /\ \E a \in IsAuthority :
          ret' = [ret EXCEPT ![r] =
                    [op |-> "peer_sets_info",
                     args |-> <<a>>,
                     result |-> peer_sets_info(a, registry[1])]]
    /\ UNCHANGED <<pc, genesis_hash, fork_id, protocols, idx, registry, call>>

\* A label is asked for at any time: get_protocol_label reads no registry
GetProtocolLabel(r) ==
    /\ \E c \in PeerSet, v \in Versions :
          ret' = [ret EXCEPT ![r] =
                    [op |-> "get_protocol_label",
                     args |-> <<c, v>>,
                     result |-> get_protocol_label(c, v)]]
    /\ UNCHANGED <<pc, genesis_hash, fork_id, protocols, idx, registry, call>>

Read(r) ==
    \/ TryGetProtocol(r)
    \/ GetMainName(r)
    \/ GetName(r)
    \/ GetInfo(r)
    \/ PeerSetsInfo(r)

Next ==
    \/ New
    \/ InsertMain
    \/ InsertLegacy
    \/ Return
    \/ \E r \in DOMAIN ret : Read(r)
    \/ \E r \in DOMAIN ret : GetProtocolLabel(r)

Spec == Init /\ [][Next]_vars

-----------------------------------------------------------------------------
(* Two readers share one registry.  The run starts inside new, which was    *)
(* called with one of two pairs of arguments.                               *)

InitConcurrent ==
    /\ pc = "main"
    /\ genesis_hash = TestGenesis
    /\ fork_id \in {None, Some("test-fork")}
    /\ protocols = EmptyMap
    /\ idx = 1
    /\ registry = None
    /\ ret = [r \in {"r1", "r2"} |-> IdleRet]
    /\ call = NoCall

NextConcurrent ==
    \/ InsertMain
    \/ InsertLegacy
    \/ Return
    \/ \E r \in DOMAIN ret : Read(r)

SpecConcurrent == InitConcurrent /\ [][NextConcurrent]_vars

-----------------------------------------------------------------------------
(* insert_protocol_or_panic applied to any name: a construction pass whose  *)
(* names are not those new generates, so that an occupied entry is met      *)

InsertNames ==
    { get_legacy_name(c) : c \in PeerSet }
        \cup { generate_name(TestGenesis, None, c, MAIN_PROTOCOL_VERSION) : c \in PeerSet }

InitInsert ==
    /\ pc = "insert"
    /\ genesis_hash = TestGenesis
    /\ fork_id = None
    /\ protocols = EmptyMap
    /\ idx = 1
    /\ registry = None
    /\ ret = [r \in {"r1"} |-> IdleRet]
    /\ call = NoCall

\* One call of insert_protocol_or_panic on the map being built; `call`
\* keeps the arguments, with the map as it was before the call
InsertCall ==
    /\ pc = "insert"
    /\ \E name \in InsertNames, protocol \in PeerSet, version \in ReadVersions :
          LET r == insert_protocol_or_panic(protocols, name, protocol, version)
          IN /\ protocols' = r.map
             /\ pc' = IF r.panicked THEN "panicked" ELSE "insert"
             /\ call' = [fn |-> "insert_protocol_or_panic",
                         map |-> protocols,
                         name |-> name,
                         protocol |-> protocol,
                         version |-> version]
    /\ UNCHANGED <<genesis_hash, fork_id, idx, registry, ret>>

\* the loop ends
InsertDone ==
    /\ pc = "insert"
    /\ pc' = "return"
    /\ UNCHANGED <<genesis_hash, fork_id, protocols, idx, registry, ret, call>>

NextInsert == InsertCall \/ InsertDone \/ Return

SpecInsert == InitInsert /\ [][NextInsert]_vars

-----------------------------------------------------------------------------
(* generate_name applied to two tuples of arguments *)

NameInputs == GenesisHashes \X ForkIds \X PeerSet \X Versions

InitName ==
    /\ pc = "generate_name"
    /\ genesis_hash = <<>>
    /\ fork_id = None
    /\ protocols = EmptyMap
    /\ idx = 1
    /\ registry = None
    /\ ret = [r \in {"r1"} |-> IdleRet]
    /\ call = NoCall

GenerateName ==
    /\ pc = "generate_name"
    /\ \E a \in NameInputs, b \in NameInputs :
          call' = [fn |-> "generate_name",
                   a |-> a,
                   b |-> b,
                   ra |-> generate_name(a[1], a[2], a[3], a[4]),
                   rb |-> generate_name(b[1], b[2], b[3], b[4])]
    /\ pc' = "done"
    /\ UNCHANGED <<genesis_hash, fork_id, protocols, idx, registry, ret>>

NextName == GenerateName

SpecName == InitName /\ [][NextName]_vars

-----------------------------------------------------------------------------
(* Properties *)

\* The value new builds from its locals
Built == [genesis_hash |-> genesis_hash, fork_id |-> fork_id, protocols |-> protocols]

MainNames(self) ==
    { generate_name(self.genesis_hash, self.fork_id, c, MAIN_PROTOCOL_VERSION) :
          c \in PeerSet }

LegacyNames == { "/polkadot/validation/1", "/polkadot/collation/1" }

\* C1: for every genesis hash and fork id, construction completes (it never
\* panics) and the registry new returns holds exactly 4 entries, pairwise
\* distinct: a main name and a legacy name for each of the 2 peer sets.
C1_FourDistinctNames ==
    /\ pc # "panicked"
    /\ registry # None =>
          LET self == registry[1]
              keys == DOMAIN self.protocols
          IN /\ self.genesis_hash = genesis_hash
             /\ self.fork_id = fork_id
             /\ Cardinality(keys) = 4
             /\ keys = MainNames(self) \cup LegacyNames
             /\ Cardinality(MainNames(self)) = 2
             /\ MainNames(self) \cap LegacyNames = {}
             /\ \A c \in PeerSet :
                   /\ Cardinality({k \in keys : self.protocols[k][1] = c}) = 2
                   /\ Cardinality({k \in MainNames(self) : self.protocols[k][1] = c}) = 1
                   /\ Cardinality({k \in LegacyNames : self.protocols[k][1] = c}) = 1

\* new has returned a registry for a fork id that itself looks like the end of
\* a name
C1_Witness ==
    /\ registry # None
    /\ registry[1].fork_id = Some("f/collation/1")
    /\ Cardinality(DOMAIN registry[1].protocols) = 4

\* C2: in every registry, the main name of peer set c is a key stored at
\* construction and resolves to (c, main version); the legacy name of c resolves
\* to (c, 1); the names of the unit test resolve as the test expects; and every
\* such lookup a reader made returned just that.
C2_NamesResolve ==
    registry # None =>
       LET self == registry[1]
       IN /\ \A c \in PeerSet :
                /\ get_main_name(self, c) \in DOMAIN self.protocols
                /\ try_get_protocol(self, get_main_name(self, c))
                       = Some(<<c, get_main_version(c)>>)
                /\ try_get_protocol(self, get_legacy_name(c)) = Some(<<c, 1>>)
          /\ (self.genesis_hash = TestGenesis /\ self.fork_id = None) =>
                /\ try_get_protocol(self,
                       "/7ac8741de8b7146d8a5617fd462914557fe63c265a7f1c10e7dae32858eebb80/validation/1")
                       = Some(<<"Validation", 1>>)
                /\ try_get_protocol(self, "/polkadot/validation/1") = Some(<<"Validation", 1>>)
                /\ try_get_protocol(self,
                       "/7ac8741de8b7146d8a5617fd462914557fe63c265a7f1c10e7dae32858eebb80/collation/1")
                       = Some(<<"Collation", 1>>)
                /\ try_get_protocol(self, "/polkadot/collation/1") = Some(<<"Collation", 1>>)
          /\ \A r \in DOMAIN ret : \A c \in PeerSet :
                (/\ ret[r].op = "try_get_protocol"
                 /\ ret[r].args[1] \in {get_main_name(self, c), get_legacy_name(c)})
                    => ret[r].result = Some(<<c, 1>>)

\* a reader of a registry with a fork id looked up the main name of Collation
C2_Witness ==
    /\ registry # None
    /\ registry[1].fork_id = Some("test-fork")
    /\ \E r \in DOMAIN ret :
          /\ ret[r].op = "try_get_protocol"
          /\ ret[r].args[1] = get_main_name(registry[1], "Collation")
          /\ ret[r].result = Some(<<"Collation", 1>>)

\* C3: when insert_protocol_or_panic is called with a name that is already a key
\* of the map, the construction panics: the map is left as it was (the entry is
\* neither overwritten nor is the call ignored and construction continued), and
\* no registry is ever produced.
C3_CollisionPanics ==
    /\ (call.fn = "insert_protocol_or_panic" /\ call.name \in DOMAIN call.map) =>
          /\ pc = "panicked"
          /\ protocols = call.map
          /\ registry = None
    /\ pc = "panicked" => registry = None

\* an insertion met an entry of another peer set or version and panicked
C3_Witness ==
    /\ call.fn = "insert_protocol_or_panic"
    /\ call.name \in DOMAIN call.map
    /\ call.map[call.name] # <<call.protocol, call.version>>
    /\ pc = "panicked"

-----------------------------------------------------------------------------
(* The format of a name, stated on the characters of the string *)

LowerHexDigits ==
    <<"0", "1", "2", "3", "4", "5", "6", "7", "8", "9", "a", "b", "c", "d", "e", "f">>

CharAt(s, i) == SubSeq(s, i, i)

DigitValue(d) == CHOOSE i \in 0..9 : LowerHexDigits[i + 1] = d

RECURSIVE DecimalValue(_)
DecimalValue(s) ==
    IF s = "" THEN 0
    ELSE DecimalValue(SubSeq(s, 1, Len(s) - 1)) * 10 + DigitValue(CharAt(s, Len(s)))

\* a decimal numeral without sign or leading zeros
IsDecimal(s) ==
    /\ Len(s) >= 1
    /\ \A i \in 1..Len(s) : \E k \in 1..10 : CharAt(s, i) = LowerHexDigits[k]
    /\ Len(s) > 1 => CharAt(s, 1) # "0"

ChannelLabel(c) == IF c = "Validation" THEN "validation" ELSE "collation"

HasNameFormat(n, g, f, c, v) ==
    LET forkSegment == IF f = None THEN "" ELSE "/" \o f[1]
        hashEnd == 1 + 2 * Len(g)
        forkEnd == hashEnd + Len(forkSegment)
        labelEnd == forkEnd + 1 + Len(ChannelLabel(c))
    IN /\ Len(g) = 32
       /\ CharAt(n, 1) = "/"
       /\ \A i \in 1..Len(g) :
             /\ CharAt(n, 2 * i) = LowerHexDigits[(g[i] \div 16) + 1]
             /\ CharAt(n, 2 * i + 1) = LowerHexDigits[(g[i] % 16) + 1]
       /\ SubSeq(n, hashEnd + 1, forkEnd) = forkSegment
       /\ CharAt(n, forkEnd + 1) = "/"
       /\ SubSeq(n, forkEnd + 2, labelEnd) = ChannelLabel(c)
       /\ CharAt(n, labelEnd + 1) = "/"
       /\ IsDecimal(SubSeq(n, labelEnd + 2, Len(n)))
       /\ DecimalValue(SubSeq(n, labelEnd + 2, Len(n))) = v

\* C4: generate_name returns "/" + the lowercase hex digits of the 32 bytes of
\* the genesis hash + ("/" + fork id, if there is one) + "/" + "validation" or
\* "collation" + "/" + the version in decimal; the fork id comes before the
\* label; the names of the unit test come out as the test expects; equal
\* arguments give equal names.
C4_NameFormat ==
    call.fn = "generate_name" =>
       /\ HasNameFormat(call.ra, call.a[1], call.a[2], call.a[3], call.a[4])
       /\ HasNameFormat(call.rb, call.b[1], call.b[2], call.b[3], call.b[4])
       /\ call.a = <<TestGenesis, None, "Validation", 3>> => call.ra =
             "/7ac8741de8b7146d8a5617fd462914557fe63c265a7f1c10e7dae32858eebb80/validation/3"
       /\ call.a = <<TestGenesis, None, "Collation", 5>> => call.ra =
             "/7ac8741de8b7146d8a5617fd462914557fe63c265a7f1c10e7dae32858eebb80/collation/5"
       /\ call.a = <<TestGenesis, Some("test-fork"), "Validation", 7>> => call.ra =
             "/7ac8741de8b7146d8a5617fd462914557fe63c265a7f1c10e7dae32858eebb80/test-fork/validation/7"
       /\ call.a = <<TestGenesis, Some("test-fork"), "Collation", 11>> => call.ra =
             "/7ac8741de8b7146d8a5617fd462914557fe63c265a7f1c10e7dae32858eebb80/test-fork/collation/11"
       /\ call.a = call.b => call.ra = call.rb

\* generate_name was applied to a fork id and a version of two digits
C4_Witness ==
    /\ call.fn = "generate_name"
    /\ call.a = <<TestGenesis, Some("test-fork"), "Collation", 11>>
    /\ call.ra =
          "/7ac8741de8b7146d8a5617fd462914557fe63c265a7f1c10e7dae32858eebb80/test-fork/collation/11"

DifferingComponents(a, b) == {i \in 1..4 : a[i] # b[i]}

\* C5: two tuples (genesis hash, fork id, peer set, version) that differ in
\* exactly one component get different names from generate_name.
C5_OneChangeChangesName ==
    (call.fn = "generate_name" /\ Cardinality(DifferingComponents(call.a, call.b)) = 1)
        => call.ra # call.rb

\* generate_name was applied with no fork id and with the empty fork id, all
\* else equal
C5_Witness ==
    /\ call.fn = "generate_name"
    /\ DifferingComponents(call.a, call.b) = {2}
    /\ call.a[2] = None
    /\ call.b[2] = Some("")
    /\ call.ra # call.rb

-----------------------------------------------------------------------------
(* Properties of the configuration and of the readers *)

\* the configurations a read returned: the result of get_info, and each
\* element of the result of peer_sets_info, with the peer set and the role
InfosOf(x) ==
    IF x.op = "get_info"
    THEN {[peer_set |-> x.args[1], role |-> x.args[2], info |-> x.result]}
    ELSE IF x.op = "peer_sets_info"
    THEN {[peer_set |-> PeerSetIter[i], role |-> x.args[1], info |-> x.result[i]] :
              i \in 1..Len(x.result)}
    ELSE {}

Infos == UNION {InfosOf(ret[r]) : r \in DOMAIN ret}

\* C6: for Collation, get_info returns in_peers = 100, out_peers = 0 and
\* non_reserved_mode = Accept to an authority, and in_peers = 0, out_peers = 0
\* and non_reserved_mode = Deny to a node that is not an authority.
C6_CollationSlots ==
    \A x \in Infos :
       x.peer_set = "Collation" =>
          /\ x.role = "Yes" =>
                /\ x.info.set_config.in_peers = 100
                /\ x.info.set_config.out_peers = 0
                /\ x.info.set_config.non_reserved_mode = "Accept"
          /\ x.role = "No" =>
                /\ x.info.set_config.in_peers = 0
                /\ x.info.set_config.out_peers = 0
                /\ x.info.set_config.non_reserved_mode = "Deny"

\* get_info was called for Collation by a node that is not an authority
C6_Witness ==
    \E r \in DOMAIN ret :
       /\ ret[r].op = "get_info"
       /\ ret[r].args = <<"Collation", "No">>
       /\ ret[r].result.set_config.in_peers = 0
       /\ ret[r].result.set_config.non_reserved_mode = "Deny"

\* C7: for Validation, get_info returns in_peers = out_peers =
\* floor(MIN_GOSSIP_PEERS / 2) - 1, a subtraction that does not wrap around, and
\* non_reserved_mode = Accept, whatever the role; in_peers + out_peers is less
\* than MIN_GOSSIP_PEERS.
C7_ValidationSlots ==
    /\ MIN_GOSSIP_PEERS \div 2 >= 1
    /\ \A x \in Infos :
          x.peer_set = "Validation" =>
             /\ x.info.set_config.in_peers = (MIN_GOSSIP_PEERS \div 2) - 1
             /\ x.info.set_config.out_peers = (MIN_GOSSIP_PEERS \div 2) - 1
             /\ x.info.set_config.in_peers >= 0
             /\ x.info.set_config.non_reserved_mode = "Accept"
             /\ x.info.set_config.in_peers + x.info.set_config.out_peers
                    < MIN_GOSSIP_PEERS
    /\ registry # None =>
          get_info("Validation", "Yes", registry[1]).set_config
              = get_info("Validation", "No", registry[1]).set_config

\* get_info was called for Validation by a node that is not an authority
C7_Witness ==
    \E r \in DOMAIN ret :
       /\ ret[r].op = "get_info"
       /\ ret[r].args = <<"Validation", "No">>
       /\ ret[r].result.set_config.in_peers = ret[r].result.set_config.out_peers
       /\ ret[r].result.set_config.in_peers > 0

\* C8: whatever the role, the configuration get_info returns for peer set c has
\* notifications_protocol = the registry's main name of c, fallback_names = the
\* list of the one legacy name of c (a constant), max_notification_size =
\* 102400, and no reserved nodes.
C8_NamesSizeReserved ==
    \A x \in Infos :
       /\ registry # None
       /\ x.info.notifications_protocol = get_main_name(registry[1], x.peer_set)
       /\ x.info.notifications_protocol \in MainNames(registry[1])
       /\ x.info.fallback_names =
             IF x.peer_set = "Validation" THEN <<"/polkadot/validation/1">>
             ELSE <<"/polkadot/collation/1">>
       /\ x.info.max_notification_size = 102400
       /\ x.info.set_config.reserved_nodes = <<>>

\* peer_sets_info was called by an authority on a registry with a fork id
C8_Witness ==
    /\ registry # None
    /\ registry[1].fork_id = Some("validation")
    /\ \E r \in DOMAIN ret :
          /\ ret[r].op = "peer_sets_info"
          /\ ret[r].args = <<"Yes">>
          /\ Len(ret[r].result) = 2
          /\ ret[r].result[2].fallback_names = <<"/polkadot/collation/1">>

\* C9: try_get_protocol returns None for every name that was not inserted at
\* construction, among them the names get_name gives for another version than
\* the main one and the main names of another genesis hash or fork id; the
\* registry stays what new built.
C9_UnknownNameIsNone ==
    registry # None =>
       LET self == registry[1]
           inserted == MainNames(self) \cup LegacyNames
       IN /\ \A r \in DOMAIN ret :
                (ret[r].op = "try_get_protocol" /\ ret[r].args[1] \notin inserted)
                    => ret[r].result = None
          /\ \A c \in PeerSet, v \in ReadVersions \ {MAIN_PROTOCOL_VERSION} :
                /\ get_name(self, c, v) \notin inserted
                /\ try_get_protocol(self, get_name(self, c, v)) = None
          /\ \A g \in GenesisHashes, f \in ForkIds, c \in PeerSet :
                <<g, f>> # <<self.genesis_hash, self.fork_id>> =>
                   /\ generate_name(g, f, c, MAIN_PROTOCOL_VERSION) \notin inserted
                   /\ try_get_protocol(self, generate_name(g, f, c, MAIN_PROTOCOL_VERSION))
                          = None
          /\ self = Built

\* a reader looked up the name of version 2 of Validation and got None
C9_Witness ==
    /\ registry # None
    /\ \E r \in DOMAIN ret :
          /\ ret[r].op = "try_get_protocol"
          /\ ret[r].args[1] = get_name(registry[1], "Validation", 2)
          /\ ret[r].result = None

\* what the read operation op returns on the registry self
ReadResult(self, op, args) ==
    IF op = "try_get_protocol" THEN try_get_protocol(self, args[1])
    ELSE IF op = "get_main_name" THEN get_main_name(self, args[1])
    ELSE IF op = "get_name" THEN get_name(self, args[1], args[2])
    ELSE IF op = "get_info" THEN get_info(args[1], args[2], self)
    ELSE peer_sets_info(args[1], self)

\* C10: once new has returned, the registry stays what new built under every
\* interleaving of the reads of two readers; what a reader got is what the
\* same call returns at any later point, two readers making the same call got
\* the same result, and a reader only ever read a complete mapping.
C10_ReadersNeverChangeRegistry ==
    /\ registry # None =>
          /\ pc = "ready"
          /\ registry[1] = Built
          /\ Cardinality(DOMAIN registry[1].protocols) = 2 * Cardinality(PeerSet)
    /\ \A r \in DOMAIN ret :
          ret[r].op # "idle" =>
             /\ registry # None
             /\ ret[r].result = ReadResult(registry[1], ret[r].op, ret[r].args)
    /\ \A r1, r2 \in DOMAIN ret :
          (ret[r1].op = ret[r2].op /\ ret[r1].args = ret[r2].args)
              => ret[r1].result = ret[r2].result

\* two readers have read the same registry: one looked up a name that is not
\* known, the other then got a configuration
C10_Witness ==
    /\ registry # None
    /\ ret["r1"].op = "try_get_protocol"
    /\ ret["r1"].result = None
    /\ ret["r2"].op = "get_info"

-----------------------------------------------------------------------------
(* Properties of the labels *)

\* C11: get_protocol_label(c, v) is Some("validation/1") for (Validation, 1),
\* Some("collation/1") for (Collation, 1) and None for every other pair; a
\* label it returns is get_label(c) + "/" + v in decimal; and every (peer set,
\* version) pair stored in a registry, and so every pair try_get_protocol
\* returned, has a label.
C11_LabelsOfKnownPairs ==
    /\ \A r \in DOMAIN ret :
          ret[r].op = "get_protocol_label" =>
             LET c == ret[r].args[1]
                 v == ret[r].args[2]
             IN /\ (c = "Validation" /\ v = 1) => ret[r].result = Some("validation/1")
                /\ (c = "Collation" /\ v = 1) => ret[r].result = Some("collation/1")
                /\ v # 1 => ret[r].result = None
                /\ ret[r].result # None =>
                      ret[r].result[1] = get_label(c) \o "/" \o ToDecimal(v)
    /\ \A n \in DOMAIN protocols :
          get_protocol_label(protocols[n][1], protocols[n][2]) # None
    /\ registry # None =>
          \A n \in DOMAIN registry[1].protocols :
             get_protocol_label(registry[1].protocols[n][1],
                                registry[1].protocols[n][2]) # None
    /\ \A r \in DOMAIN ret :
          (ret[r].op = "try_get_protocol" /\ ret[r].result # None) =>
             get_protocol_label(ret[r].result[1][1], ret[r].result[1][2]) # None

\* once a registry exists, a label was asked for version 2 of Collation, and
\* there is none
C11_Witness ==
    /\ registry # None
    /\ \E r \in DOMAIN ret :
          /\ ret[r].op = "get_protocol_label"
          /\ ret[r].args = <<"Collation", 2>>
          /\ ret[r].result = None

====
